---- MODULE Spec2Model ----
(***************************************************************************)
(* A model of lib/netdev-windows.c: the one-time family binding            *)
(* (netdev_windows_init), the request/response codec                       *)
(* (netdev_windows_netdev_to_ofpbuf / _from_ofpbuf), the query             *)
(* orchestration (query_netdev), device construction and the cached        *)
(* accessors.  Several threads each allocate, construct, read, destruct    *)
(* and deallocate a device of their own; they share the once-guard, the    *)
(* family number and the socket.  Spec is the whole program, CodecSpec     *)
(* the encoder and the decoder applied on their own, BindingSpec           *)
(* netdev_windows_init on its own under fair scheduling.                   *)
(*                                                                         *)
(* A buffer (struct ofpbuf) is a sequence of items: the three fixed        *)
(* headers and the attributes, each attribute carrying its payload bytes.  *)
(* A C string pointer is the sequence of its characters, NULLSTR being     *)
(* the null pointer.                                                       *)
(***************************************************************************)
EXTENDS Integers, Sequences, FiniteSets, TLC

\* ------------------------------------------------------------------ bounds

\* Number of threads that construct devices concurrently.
NThreads == 2

\* Number of those threads that own a device.
NDevices == 1

\* Ghost counters of collaborator invocations stop counting here.
MaxCount == 3

Threads == 1..NThreads
DeviceThreads == 1..NDevices

\* --------------------------------------------------------------- constants

VALID_ETHERADDR == 1
VALID_MTU == 2
VALID_IFFLAG == 32

ETH_ADDR_LEN == 6
IFNAMSIZ == 16
EINVAL == 22
EOPNOTSUPP == 95
OVS_WIN_NETDEV_CMD_GET == 1

\* sizeof (struct nlmsghdr), (struct genlmsghdr), (struct ovs_header), and
\* the size of an attribute's header.
NLMSG_HDRLEN == 16
GENL_HDRLEN == 4
OVS_HDRLEN == 4
NLA_HDRLEN == 4

\* The null char pointer.
NULLSTR == <<-1>>

\* "eth0", "br" and "" as character sequences (no terminator).
Eth0 == <<101, 116, 104, 48>>
Br == <<98, 114>>
EmptyName == << >>

\* Names the device layer may hand to construct (netdev_get_name).
DevNames == {NULLSTR, EmptyName, Eth0}

\* The family id the resolver may yield, and the errors of the collaborators.
FamilyIds == {23}
LookupErrors == {2}
SockErrors == {12}
TransactErrors == {19}

\* Content of bytes that lie behind an attribute's payload.
JunkBytes == {0, 170}

\* ----------------------------------------------------------------- helpers

RECURSIVE BitOr(_, _)
BitOr(a, b) ==
    IF a = 0 THEN b
    ELSE IF b = 0 THEN a
    ELSE (IF (a % 2 = 1) \/ (b % 2 = 1) THEN 1 ELSE 0)
         + 2 * BitOr(a \div 2, b \div 2)

RECURSIVE BitAnd(_, _)
BitAnd(a, b) ==
    IF a = 0 \/ b = 0 THEN 0
    ELSE (IF (a % 2 = 1) /\ (b % 2 = 1) THEN 1 ELSE 0)
         + 2 * BitAnd(a \div 2, b \div 2)

\* Conversion of a uint32_t to int / int32_t.
ToInt32(u) ==
    IF u > 2147483647 THEN ((u - 2147483647) - 2147483647) - 2 ELSE u

\* A u32 attribute payload: four bytes, least significant first.
U32Bytes(n) ==
    << n % 256, (n \div 256) % 256, (n \div 65536) % 256,
       (n \div 16777216) % 256 >>

ZeroMac == <<0, 0, 0, 0, 0, 0>>

\* memset(info, 0, sizeof *info)
netdev_windows_info_init ==
    [ cmd |-> 0, dp_ifindex |-> 0, port_no |-> 0, ovs_type |-> 0,
      name |-> NULLSTR, mac_address |-> ZeroMac, mtu |-> 0, ifi_flags |-> 0 ]

\* xzalloc(sizeof *netdev)
netdev_windows_alloc_record ==
    [ dev_type |-> 0, port_no |-> 0, change_seq |-> 0, cache_valid |-> 0,
      ifindex |-> 0, mac |-> ZeroMac, mtu |-> 0, ifi_flags |-> 0 ]

\* ---------------------------------------------------- netlink collaborators

NlMsgHdr(type, flags) ==
    [ k |-> "nlmsghdr", nlmsg_type |-> type, nlmsg_flags |-> flags ]
GenlMsgHdr(cmd, version) ==
    [ k |-> "genlmsghdr", cmd |-> cmd, version |-> version ]
OvsHeader(dp) == [ k |-> "ovs_header", dp_ifindex |-> dp ]
NlAttr(type, payload) == [ k |-> "nlattr", type |-> type, payload |-> payload ]

\* nl_msg_put_genlmsghdr: the message header, then the generic header.
nl_msg_put_genlmsghdr(buf, family, flags, cmd, version) ==
    buf \o << NlMsgHdr(family, flags), GenlMsgHdr(cmd, version) >>

\* nl_msg_put_string: the characters and their terminator.
nl_msg_put_string(buf, type, s) == Append(buf, NlAttr(type, s \o <<0>>))

\* Bytes of the buffer that belong to no header or attribute of the model:
\* size of them, each of content fill.
Raw(size, fill) == [ k |-> "raw", size |-> size, fill |-> fill ]

\* The bytes an item takes in a buffer; an attribute is padded to four.
ItemSize(x) ==
    CASE x.k = "nlmsghdr" -> NLMSG_HDRLEN
      [] x.k = "genlmsghdr" -> GENL_HDRLEN
      [] x.k = "ovs_header" -> OVS_HDRLEN
      [] x.k = "nlattr" -> NLA_HDRLEN + 4 * ((Len(x.payload) + 3) \div 4)
      [] OTHER -> x.size

\* ofpbuf_size
RECURSIVE ofpbuf_size(_)
ofpbuf_size(b) ==
    IF b = << >> THEN 0 ELSE ItemSize(Head(b)) + ofpbuf_size(Tail(b))

\* The header of kind k that size bytes at the front of b are read as: the
\* header that is there, or one made of the bytes that are.
HeaderAt(b, k) ==
    IF b[1].k = k THEN b[1]
    ELSE LET f == IF b[1].k = "raw" THEN b[1].fill ELSE 0
         IN  CASE k = "nlmsghdr" -> NlMsgHdr(257 * f, {})
               [] k = "genlmsghdr" -> GenlMsgHdr(f, f)
               [] OTHER -> OvsHeader(16843009 * f)

\* The buffer behind its first size bytes.
BehindHeader(b, k, size) ==
    IF b[1].k = k THEN Tail(b)
    ELSE IF ofpbuf_size(b) = size THEN << >>
    ELSE << Raw(ofpbuf_size(b) - size,
                IF b[1].k = "raw" THEN b[1].fill ELSE 0) >>

\* ofpbuf_try_pull: the size bytes at the front as a header of kind k, when
\* the buffer holds as many; else a null pointer, the buffer as it was.
ofpbuf_try_pull(b, k, size) ==
    IF ofpbuf_size(b) >= size /\ size > 0
    THEN [ ok |-> TRUE, hdr |-> HeaderAt(b, k),
           rest |-> BehindHeader(b, k, size) ]
    ELSE [ ok |-> FALSE, hdr |-> OvsHeader(0), rest |-> b ]

\* The characters of the C string that starts the payload.
RECURSIVE CStr(_)
CStr(p) ==
    IF p = << >> \/ Head(p) = 0 THEN << >> ELSE <<Head(p)>> \o CStr(Tail(p))

nl_attr_get_string(a) == CStr(a.payload)

nl_attr_get_u32(a) ==
    a.payload[1] + 256 * a.payload[2] + 65536 * a.payload[3]
    + 16777216 * a.payload[4]

\* memcpy of n bytes starting at the payload: what lies behind the payload
\* is padding or the next attribute, bytes of content j.
MemcpyFrom(a, n, j) ==
    [ i \in 1..n |-> IF i <= Len(a.payload) THEN a.payload[i] ELSE j ]

\* ------------------------------------------------------------ the policy

PolicyIds == {"PORT_NO", "TYPE", "NAME", "MAC_ADDR", "MTU", "IF_FLAGS"}

\* The policy with { .type = NL_A_UNSPEC } for the MAC address: any length.
ovs_netdev_policy_AnyMacLength ==
    [ id \in PolicyIds |->
        CASE id = "NAME" ->
               [ type |-> "NL_A_STRING", min_len |-> 1, max_len |-> IFNAMSIZ ]
          [] id = "MAC_ADDR" ->
               [ type |-> "NL_A_UNSPEC", min_len |-> 0, max_len |-> 65535 ]
          [] OTHER -> [ type |-> "NL_A_U32", min_len |-> 4, max_len |-> 4 ] ]

\* ovs_netdev_policy[]: NL_POLICY_FOR(x) is an untyped attribute of exactly
\* sizeof x bytes.
ovs_netdev_policy ==
    [ id \in PolicyIds |->
        CASE id = "NAME" ->
               [ type |-> "NL_A_STRING", min_len |-> 1, max_len |-> IFNAMSIZ ]
          [] id = "MAC_ADDR" ->
               [ type |-> "NL_A_UNSPEC", min_len |-> ETH_ADDR_LEN,
                 max_len |-> ETH_ADDR_LEN ]
          [] OTHER -> [ type |-> "NL_A_U32", min_len |-> 4, max_len |-> 4 ] ]

\* One attribute against its policy entry: the length limits, and for a
\* string its terminator.
nl_attr_validate(a, e) ==
    /\ Len(a.payload) >= e.min_len
    /\ Len(a.payload) <= e.max_len
    /\ e.type = "NL_A_STRING" =>
         /\ a.payload[Len(a.payload)] = 0
         /\ \A i \in 1..(Len(a.payload) - 1) : a.payload[i] # 0

\* The index of the last attribute of the given type.
LastAttr(b, id) ==
    CHOOSE i \in 1..Len(b) :
        /\ b[i].type = id
        /\ \A m \in (i + 1)..Len(b) : b[m].type # id

\* nl_policy_parse: every attribute is known to the policy and conforms to
\* its entry, and every attribute of the policy is there.
nl_policy_parse(b, policy) ==
    LET ok == /\ \A i \in 1..Len(b) :
                    /\ b[i].k = "nlattr"
                    /\ b[i].type \in DOMAIN policy
                    /\ nl_attr_validate(b[i], policy[b[i].type])
              /\ \A id \in DOMAIN policy : \E i \in 1..Len(b) : b[i].type = id
    IN  [ ok |-> ok,
          a |-> IF ok THEN [ id \in DOMAIN policy |-> b[LastAttr(b, id)] ]
                ELSE << >> ]

\* ------------------------------------------------------------------ codec

RequestFlags == {"NLM_F_REQUEST", "NLM_F_ECHO"}

\* The encoder with error starting at 0: a missing name goes unreported.
netdev_windows_netdev_to_ofpbuf_NoError(info, buf, family) ==
    LET b1 == nl_msg_put_genlmsghdr(buf, family, RequestFlags, info.cmd,
                                    "OVS_WIN_NETDEV_VERSION")
        b2 == Append(b1, OvsHeader(info.dp_ifindex))
    IN  IF info.name # NULLSTR
        THEN [ error |-> 0,
               buf |-> nl_msg_put_string(b2, "NAME", info.name) ]
        ELSE [ error |-> 0, buf |-> b2 ]

\* The encoder putting the datapath header in front of the other two.
netdev_windows_netdev_to_ofpbuf_HeaderOrder(info, buf, family) ==
    LET b1 == Append(buf, OvsHeader(info.dp_ifindex))
        b2 == nl_msg_put_genlmsghdr(b1, family, RequestFlags, info.cmd,
                                    "OVS_WIN_NETDEV_VERSION")
    IN  IF info.name # NULLSTR
        THEN [ error |-> 0,
               buf |-> nl_msg_put_string(b2, "NAME", info.name) ]
        ELSE [ error |-> EINVAL, buf |-> b2 ]

\* netdev_windows_netdev_to_ofpbuf: the request of info appended to buf.
netdev_windows_netdev_to_ofpbuf(info, buf, family) ==
    LET b1 == nl_msg_put_genlmsghdr(buf, family, RequestFlags, info.cmd,
                                    "OVS_WIN_NETDEV_VERSION")
        b2 == Append(b1, OvsHeader(info.dp_ifindex))
    IN  IF info.name # NULLSTR
        THEN [ error |-> 0,
               buf |-> nl_msg_put_string(b2, "NAME", info.name) ]
        ELSE [ error |-> EINVAL, buf |-> b2 ]

\* The extraction with the MTU read from the interface-flags attribute.
ExtractInfo_MtuFromFlags(genl, ovs_header, a, j) ==
    [ cmd |-> genl.cmd,
      dp_ifindex |-> ovs_header.dp_ifindex,
      port_no |-> nl_attr_get_u32(a["PORT_NO"]),
      ovs_type |-> nl_attr_get_u32(a["TYPE"]),
      name |-> nl_attr_get_string(a["NAME"]),
      mac_address |-> MemcpyFrom(a["NAME"], ETH_ADDR_LEN, j),
      mtu |-> nl_attr_get_u32(a["IF_FLAGS"]),
      ifi_flags |-> nl_attr_get_u32(a["IF_FLAGS"]) ]

\* The fields a successful decode stores, from the headers and attributes.
\* The MAC address is copied from where the name attribute's string starts.
ExtractInfo(genl, ovs_header, a, j) ==
    [ cmd |-> genl.cmd,
      dp_ifindex |-> ovs_header.dp_ifindex,
      port_no |-> nl_attr_get_u32(a["PORT_NO"]),
      ovs_type |-> nl_attr_get_u32(a["TYPE"]),
      name |-> nl_attr_get_string(a["NAME"]),
      mac_address |-> MemcpyFrom(a["NAME"], ETH_ADDR_LEN, j),
      mtu |-> nl_attr_get_u32(a["MTU"]),
      ifi_flags |-> nl_attr_get_u32(a["IF_FLAGS"]) ]

\* The decoder comparing the family before it looks at the pointers: it
\* reads through nlmsg, pulled or not.
netdev_windows_netdev_from_ofpbuf_TypeFirst(buf, family, j) ==
    LET nlmsg == ofpbuf_try_pull(buf, "nlmsghdr", NLMSG_HDRLEN)
        genl == ofpbuf_try_pull(nlmsg.rest, "genlmsghdr", GENL_HDRLEN)
        ovs_header == ofpbuf_try_pull(genl.rest, "ovs_header", OVS_HDRLEN)
        parsed == nl_policy_parse(ovs_header.rest, ovs_netdev_policy)
        pulled == (IF nlmsg.ok THEN {"nlmsg"} ELSE {})
                  \cup (IF genl.ok THEN {"genl"} ELSE {})
                  \cup (IF ovs_header.ok THEN {"ovs_header"} ELSE {})
    IN  IF \/ (nlmsg.ok /\ nlmsg.hdr.nlmsg_type # family)
           \/ ~nlmsg.ok
           \/ ~genl.ok
           \/ ~ovs_header.ok
           \/ ~parsed.ok
        THEN [ error |-> EINVAL, info |-> netdev_windows_info_init,
               pulled |-> pulled, deref |-> {"nlmsg"} ]
        ELSE [ error |-> 0,
               info |-> ExtractInfo(genl.hdr, ovs_header.hdr, parsed.a, j),
               pulled |-> pulled,
               deref |-> {"nlmsg", "genl", "ovs_header"} ]

\* The decoder without the comparison of the family.
netdev_windows_netdev_from_ofpbuf_NoFamilyCheck(buf, family, j) ==
    LET nlmsg == ofpbuf_try_pull(buf, "nlmsghdr", NLMSG_HDRLEN)
        genl == ofpbuf_try_pull(nlmsg.rest, "genlmsghdr", GENL_HDRLEN)
        ovs_header == ofpbuf_try_pull(genl.rest, "ovs_header", OVS_HDRLEN)
        parsed == nl_policy_parse(ovs_header.rest, ovs_netdev_policy)
        nonnull == nlmsg.ok /\ genl.ok /\ ovs_header.ok
        pulled == (IF nlmsg.ok THEN {"nlmsg"} ELSE {})
                  \cup (IF genl.ok THEN {"genl"} ELSE {})
                  \cup (IF ovs_header.ok THEN {"ovs_header"} ELSE {})
    IN  IF \/ ~nlmsg.ok
           \/ ~genl.ok
           \/ ~ovs_header.ok
           \/ ~parsed.ok
        THEN [ error |-> EINVAL, info |-> netdev_windows_info_init,
               pulled |-> pulled, deref |-> {} ]
        ELSE [ error |-> 0,
               info |-> ExtractInfo(genl.hdr, ovs_header.hdr, parsed.a, j),
               pulled |-> pulled,
               deref |-> {"genl", "ovs_header"} ]

\* netdev_windows_netdev_from_ofpbuf: the info decoded from buf, or EINVAL
\* and the zeroed info.  pulled are the headers the pulls yielded, deref the
\* header pointers the function read through: nlmsg once none of the three
\* is null, genl and ovs_header once the gate is passed.
netdev_windows_netdev_from_ofpbuf(buf, family, j) ==
    LET nlmsg == ofpbuf_try_pull(buf, "nlmsghdr", NLMSG_HDRLEN)
        genl == ofpbuf_try_pull(nlmsg.rest, "genlmsghdr", GENL_HDRLEN)
        ovs_header == ofpbuf_try_pull(genl.rest, "ovs_header", OVS_HDRLEN)
        parsed == nl_policy_parse(ovs_header.rest, ovs_netdev_policy)
        nonnull == nlmsg.ok /\ genl.ok /\ ovs_header.ok
        pulled == (IF nlmsg.ok THEN {"nlmsg"} ELSE {})
                  \cup (IF genl.ok THEN {"genl"} ELSE {})
                  \cup (IF ovs_header.ok THEN {"ovs_header"} ELSE {})
    IN  IF \/ ~nlmsg.ok
           \/ ~genl.ok
           \/ ~ovs_header.ok
           \/ nlmsg.hdr.nlmsg_type # family
           \/ ~parsed.ok
        THEN [ error |-> EINVAL, info |-> netdev_windows_info_init,
               pulled |-> pulled,
               deref |-> IF nonnull THEN {"nlmsg"} ELSE {} ]
        ELSE [ error |-> 0,
               info |-> ExtractInfo(genl.hdr, ovs_header.hdr, parsed.a, j),
               pulled |-> pulled,
               deref |-> {"nlmsg", "genl", "ovs_header"} ]

\* -------------------------------------------------- the transport's replies

Mac1 == <<0, 17, 34, 51, 68, 85>>
Mac2 == <<2, 0, 0, 0, 0, 9>>

ReplyAttrs(port, type, name, mac, mtu, flags) ==
    << NlAttr("PORT_NO", U32Bytes(port)), NlAttr("TYPE", U32Bytes(type)),
       NlAttr("NAME", name \o <<0>>), NlAttr("MAC_ADDR", mac),
       NlAttr("MTU", U32Bytes(mtu)), NlAttr("IF_FLAGS", U32Bytes(flags)) >>

Reply(family, dp, attrs) ==
    << NlMsgHdr(family, {}),
       GenlMsgHdr(OVS_WIN_NETDEV_CMD_GET, "OVS_WIN_NETDEV_VERSION"),
       OvsHeader(dp) >> \o attrs

Eth0Attrs == ReplyAttrs(2, 1, Eth0, Mac1, 1500, 4099)
BrAttrs == ReplyAttrs(3, 2, Br, Mac2, 9000, 1)

\* The attribute stream s without the attributes of type id.
RECURSIVE WithoutAttr(_, _)
WithoutAttr(s, id) ==
    IF s = << >> THEN << >>
    ELSE IF Head(s).type = id THEN WithoutAttr(Tail(s), id)
    ELSE <<Head(s)>> \o WithoutAttr(Tail(s), id)

\* What a transaction may deliver for a request of the given family: two
\* well-formed replies, a truncated one, one of another family, one without
\* the MAC attribute, one with an attribute the policy does not know, and
\* one whose MTU attribute is two bytes long.
Replies(family) ==
    { Reply(family, 0, Eth0Attrs),
      Reply(family, 1, BrAttrs),
      SubSeq(Reply(family, 0, Eth0Attrs), 1, 2),
      Reply(family + 1, 0, Eth0Attrs),
      Reply(family, 0, WithoutAttr(Eth0Attrs, "MAC_ADDR")),
      Reply(family, 0, Append(Eth0Attrs, NlAttr("UNKNOWN", U32Bytes(7)))),
      Reply(family, 0,
            Append(WithoutAttr(Eth0Attrs, "MTU"), NlAttr("MTU", <<220, 5>>))) }

\* ------------------------------------------------------------------ state

VARIABLES
    once,                  \* the ovsthread_once of netdev_windows_init
    ovs_win_netdev_family, \* static int ovs_win_netdev_family
    ovs_win_netdev_sock,   \* struct nl_sock *ovs_win_netdev_sock
    nlookup,               \* calls of nl_lookup_genl_family so far
    nsock,                 \* calls of nl_sock_create so far
    resolution,            \* << >>, or <<e>>: the guarded execution ended with e
    pc,                    \* where each thread is
    caller,                \* who called netdev_windows_init
    late,                  \* the call began after the binding had failed
    devname,               \* the name of each thread's device
    dev,                   \* each thread's struct netdev_windows
    init_error,            \* netdev_windows_init's local error
    info,                  \* construct's struct netdev_windows_netdev_info
    request_buf,           \* query_netdev's request buffer
    reply_buf,             \* the buffer the transaction delivered
    buf,                   \* construct's struct ofpbuf *buf
    error,                 \* query_netdev's local error
    qret,                  \* what query_netdev returned
    cret,                  \* what construct returned
    steps,                 \* the steps of the current query_netdev call
    qfail,                 \* the stage at which the current query failed
    acc,                   \* the last accessor call: its result and output
    decoded,               \* the decoder call examined alone (CodecSpec)
    aborted                \* an ovs_assert failed

shared == << once, ovs_win_netdev_family, ovs_win_netdev_sock, nlookup, nsock,
             resolution >>
call == << caller, late >>
locals == << call, init_error, info, request_buf, reply_buf, buf, error,
             qret, steps, qfail, decoded >>
device == << devname, dev, cret, acc >>
vars == << shared, locals, device, pc, aborted >>

NoBuffer == [ st |-> "none", data |-> << >> ]
NoAccess == [ fn |-> "none", ret |-> 0, out |-> << >> ]
NoDecode == [ called |-> FALSE, buf |-> << >>, error |-> 0,
              info |-> netdev_windows_info_init, pulled |-> {}, deref |-> {} ]

\* The decoder called on the bytes b, and what it returned, d.
DecodeCall(b, d) ==
    [ called |-> TRUE, buf |-> b, error |-> d.error, info |-> d.info,
      pulled |-> d.pulled, deref |-> d.deref ]

\* ofpbuf_new
ofpbuf_new(data) == [ st |-> "live", data |-> data ]

\* ofpbuf_delete of an allocated buffer: its bytes are gone.
ofpbuf_delete(b) ==
    [ st |-> IF b.st = "live" THEN "freed" ELSE "double-freed",
      data |-> << >> ]

\* ofpbuf_delete(*bufp) by pointer: a null pointer is ignored.
DeleteReply(ptr, b) == IF ptr = "reply" THEN ofpbuf_delete(b) ELSE b

Bump(n) == IF n < MaxCount THEN n + 1 ELSE n

\* The guarded execution has ended, with an error.
BindingFailed == once = "done" /\ resolution # << >> /\ resolution[1] # 0

\* No thread has called anything yet.
ThreadsInit ==
    /\ pc = [ t \in Threads |-> "idle" ]
    /\ caller = [ t \in Threads |-> "none" ]
    /\ late = [ t \in Threads |-> FALSE ]
    /\ devname = [ t \in Threads |-> NULLSTR ]
    /\ dev = [ t \in Threads |-> netdev_windows_alloc_record ]
    /\ init_error = [ t \in Threads |-> 0 ]
    /\ info = [ t \in Threads |-> netdev_windows_info_init ]
    /\ request_buf = [ t \in Threads |-> NoBuffer ]
    /\ reply_buf = [ t \in Threads |-> NoBuffer ]
    /\ buf = [ t \in Threads |-> "uninit" ]
    /\ error = [ t \in Threads |-> 0 ]
    /\ qret = [ t \in Threads |-> 0 ]
    /\ cret = [ t \in Threads |-> 0 ]
    /\ steps = [ t \in Threads |-> << >> ]
    /\ qfail = [ t \in Threads |-> "none" ]
    /\ acc = [ t \in Threads |-> NoAccess ]
    /\ decoded = [ t \in Threads |-> NoDecode ]
    /\ aborted = FALSE

Init ==
    /\ once = "fresh"
    /\ ovs_win_netdev_family = 0
    /\ ovs_win_netdev_sock = "NULL"
    /\ nlookup = 0
    /\ nsock = 0
    /\ resolution = << >>
    /\ ThreadsInit

\* --------------------------------------------------- netdev_windows_alloc

\* The device layer allocates a zeroed device and names it.
netdev_windows_alloc(t) ==
    /\ ~aborted
    /\ t \in DeviceThreads
    /\ pc[t] = "idle"
    /\ \E n \in DevNames : devname' = [ devname EXCEPT ![t] = n ]
    /\ dev' = [ dev EXCEPT ![t] = netdev_windows_alloc_record ]
    /\ pc' = [ pc EXCEPT ![t] = "allocated" ]
    /\ UNCHANGED << shared, locals, cret, acc, aborted >>

\* ---------------------------------------------------- netdev_windows_init

\* ovsthread_once_start: whether the caller may proceed (it waits while
\* another caller runs the guarded code), and whether it is the one to run
\* the guarded code.
ovsthread_once_start(o) == [ proceed |-> o # "running", run |-> o = "fresh" ]

\* The guarded code run by every caller that gets past the guard.
InitGuard_Always(o) == TRUE

\* if (ovsthread_once_start(&once))
InitGuard(o) == ovsthread_once_start(o).run

\* construct calls query_netdev, which resets info and calls
\* netdev_windows_init; error = 0 there.
query_netdev_start(t) ==
    /\ ~aborted
    /\ pc[t] = "allocated"
    /\ info' = [ info EXCEPT ![t] = netdev_windows_info_init ]
    /\ init_error' = [ init_error EXCEPT ![t] = 0 ]
    /\ error' = [ error EXCEPT ![t] = 0 ]
    /\ steps' = [ steps EXCEPT ![t] = << >> ]
    /\ qfail' = [ qfail EXCEPT ![t] = "none" ]
    /\ caller' = [ caller EXCEPT ![t] = "query_netdev" ]
    /\ late' = [ late EXCEPT ![t] = BindingFailed ]
    /\ pc' = [ pc EXCEPT ![t] = "init" ]
    /\ UNCHANGED << decoded, shared, request_buf, reply_buf, buf, qret, device,
                    aborted >>

\* The device layer calls the class's init slot, netdev_windows_init, when
\* it registers a class.
class_init_call(t) ==
    /\ ~aborted
    /\ pc[t] = "idle"
    /\ caller' = [ caller EXCEPT ![t] = "register" ]
    /\ late' = [ late EXCEPT ![t] = BindingFailed ]
    /\ init_error' = [ init_error EXCEPT ![t] = 0 ]
    /\ steps' = [ steps EXCEPT ![t] = << >> ]
    /\ pc' = [ pc EXCEPT ![t] = "init" ]
    /\ UNCHANGED << decoded, shared, info, request_buf, reply_buf, buf, error, qret,
                    qfail, device, aborted >>

\* A caller that finds the guard held blocks in ovsthread_once_start.
init_once_wait(t) ==
    /\ ~aborted
    /\ pc[t] = "init"
    /\ ~ovsthread_once_start(once).proceed
    /\ pc' = [ pc EXCEPT ![t] = "waiting" ]
    /\ UNCHANGED << shared, locals, device, aborted >>

\* The once-guard: the first caller goes on to the lookup, a caller that
\* finds the guard done, at once or after it was blocked, returns its error
\* of 0.
init_once_start(t) ==
    /\ ~aborted
    /\ pc[t] \in {"init", "waiting"}
    /\ ovsthread_once_start(once).proceed
    /\ IF InitGuard(once)
       THEN /\ once' = "running"
            /\ pc' = [ pc EXCEPT ![t] = "lookup" ]
       ELSE /\ once' = once
            /\ pc' = [ pc EXCEPT ![t] = "init_ret" ]
    /\ steps' = [ steps EXCEPT ![t] = Append(@, "init") ]
    /\ UNCHANGED << decoded, ovs_win_netdev_family, ovs_win_netdev_sock, nlookup,
                    nsock, resolution, call, init_error, info,
                    request_buf,
                    reply_buf, buf, error, qret, qfail, device, aborted >>

\* The lookup returning its error from inside the guarded code, past
\* ovsthread_once_done.
init_lookup_EarlyReturn(t) ==
    /\ ~aborted
    /\ pc[t] = "lookup"
    /\ nlookup' = Bump(nlookup)
    /\ \/ \E f \in FamilyIds :
            /\ ovs_win_netdev_family' = f
            /\ init_error' = [ init_error EXCEPT ![t] = 0 ]
            /\ pc' = [ pc EXCEPT ![t] = "sock" ]
       \/ \E e \in LookupErrors :
            /\ ovs_win_netdev_family' = ovs_win_netdev_family
            /\ init_error' = [ init_error EXCEPT ![t] = e ]
            /\ pc' = [ pc EXCEPT ![t] = "init_ret" ]
    /\ UNCHANGED << once, ovs_win_netdev_sock, nsock, resolution, call, info,
                    request_buf, reply_buf, buf, error, qret, steps, qfail,
                    decoded, device, aborted >>

\* nl_lookup_genl_family: a family id, or an error.
init_lookup(t) ==
    /\ ~aborted
    /\ pc[t] = "lookup"
    /\ nlookup' = Bump(nlookup)
    /\ \/ \E f \in FamilyIds :
            /\ ovs_win_netdev_family' = f
            /\ init_error' = [ init_error EXCEPT ![t] = 0 ]
            /\ pc' = [ pc EXCEPT ![t] = "sock" ]
       \/ \E e \in LookupErrors :
            /\ ovs_win_netdev_family' = ovs_win_netdev_family
            /\ init_error' = [ init_error EXCEPT ![t] = e ]
            /\ pc' = [ pc EXCEPT ![t] = "once_done" ]
    /\ UNCHANGED << decoded, once, ovs_win_netdev_sock, nsock, resolution, call, info,
                    request_buf, reply_buf, buf, error, qret, steps, qfail,
                    device, aborted >>

\* nl_sock_create, after a successful lookup: the socket, or an error.
init_sock_create(t) ==
    /\ ~aborted
    /\ pc[t] = "sock"
    /\ nsock' = Bump(nsock)
    /\ \/ /\ ovs_win_netdev_sock' = "sock"
          /\ init_error' = [ init_error EXCEPT ![t] = 0 ]
       \/ \E e \in SockErrors :
            /\ ovs_win_netdev_sock' = ovs_win_netdev_sock
            /\ init_error' = [ init_error EXCEPT ![t] = e ]
    /\ pc' = [ pc EXCEPT ![t] = "once_done" ]
    /\ UNCHANGED << decoded, once, ovs_win_netdev_family, nlookup, resolution, call, info,
                    request_buf, reply_buf, buf, error, qret, steps, qfail,
                    device, aborted >>

\* ovsthread_once_done
init_once_done(t) ==
    /\ ~aborted
    /\ pc[t] = "once_done"
    /\ once' = "done"
    /\ resolution' = << init_error[t] >>
    /\ pc' = [ pc EXCEPT ![t] = "init_ret" ]
    /\ UNCHANGED << ovs_win_netdev_family, ovs_win_netdev_sock, nlookup,
                    nsock, locals, device, aborted >>

\* netdev_windows_init returned to the registration.
class_init_return(t) ==
    /\ ~aborted
    /\ pc[t] = "init_ret"
    /\ caller[t] = "register"
    /\ caller' = [ caller EXCEPT ![t] = "none" ]
    /\ late' = [ late EXCEPT ![t] = FALSE ]
    /\ init_error' = [ init_error EXCEPT ![t] = 0 ]
    /\ steps' = [ steps EXCEPT ![t] = << >> ]
    /\ pc' = [ pc EXCEPT ![t] = "idle" ]
    /\ UNCHANGED << decoded, shared, info, request_buf, reply_buf, buf, error, qret,
                    qfail, device, aborted >>

\* ----------------------------------------------------------- query_netdev

\* What query_netdev returns after the transaction and the decode, whose
\* error is e.
query_netdev_result(e) == 0

\* After netdev_windows_init returned: on its error, null the caller's buffer
\* pointer, reset info and return the error; else allocate the request, set
\* the command and the name, and encode.
query_netdev_encode(t) ==
    /\ ~aborted
    /\ pc[t] = "init_ret"
    /\ caller[t] = "query_netdev"
    /\ IF init_error[t] # 0
       THEN /\ error' = [ error EXCEPT ![t] = init_error[t] ]
            /\ buf' = [ buf EXCEPT ![t] = "NULL" ]
            /\ info' = [ info EXCEPT ![t] = netdev_windows_info_init ]
            /\ qret' = [ qret EXCEPT ![t] = init_error[t] ]
            /\ qfail' = [ qfail EXCEPT ![t] = "binding" ]
            /\ pc' = [ pc EXCEPT ![t] = "q_ret" ]
            /\ UNCHANGED << request_buf, steps >>
       ELSE LET i == [ info[t] EXCEPT !.cmd = OVS_WIN_NETDEV_CMD_GET,
                                      !.name = devname[t] ]
                r == netdev_windows_netdev_to_ofpbuf(i, << >>,
                                                     ovs_win_netdev_family)
            IN  /\ info' = [ info EXCEPT ![t] = i ]
                /\ request_buf' =
                     [ request_buf EXCEPT ![t] = ofpbuf_new(r.buf) ]
                /\ error' = [ error EXCEPT ![t] = r.error ]
                /\ steps' = [ steps EXCEPT ![t] = Append(@, "encode") ]
                /\ pc' = [ pc EXCEPT ![t] = "encoded" ]
                /\ UNCHANGED << buf, qret, qfail >>
    /\ UNCHANGED << decoded, shared, call, init_error, reply_buf, device, aborted >>

\* The test of the encoder's error left out.
EncodeFailed_Ignored(e) == FALSE

\* if (error), after the encoder returned.
EncodeFailed(e) == e # 0

\* After the encoder returned: on its error, delete the request and return
\* the error; else nl_transact, which yields a reply for the request's
\* family, or an error and a null reply, and then the request is deleted.
query_netdev_transact(t) ==
    /\ ~aborted
    /\ pc[t] = "encoded"
    /\ IF EncodeFailed(error[t])
       THEN /\ qret' = [ qret EXCEPT ![t] = error[t] ]
            /\ qfail' = [ qfail EXCEPT ![t] = "encode" ]
            /\ pc' = [ pc EXCEPT ![t] = "q_ret" ]
            /\ UNCHANGED << error, reply_buf, buf, steps >>
       ELSE /\ \/ \E r \in Replies(request_buf[t].data[1].nlmsg_type) :
                    /\ error' = [ error EXCEPT ![t] = 0 ]
                    /\ reply_buf' = [ reply_buf EXCEPT ![t] = ofpbuf_new(r) ]
                    /\ buf' = [ buf EXCEPT ![t] = "reply" ]
                    /\ qfail' = qfail
               \/ \E e \in TransactErrors :
                    /\ error' = [ error EXCEPT ![t] = e ]
                    /\ reply_buf' = reply_buf
                    /\ buf' = [ buf EXCEPT ![t] = "NULL" ]
                    /\ qfail' = [ qfail EXCEPT ![t] = "transport" ]
            /\ steps' = [ steps EXCEPT ![t] = Append(@, "transact") ]
            /\ pc' = [ pc EXCEPT ![t] = "decode" ]
            /\ qret' = qret
    /\ request_buf' = [ request_buf EXCEPT ![t] = ofpbuf_delete(@) ]
    /\ UNCHANGED << decoded, shared, call, init_error, info, device, aborted >>

\* Decode the reply when the transaction succeeded; on an error of either,
\* reset info, delete the reply and null the caller's pointer; return.
query_netdev_decode(t) ==
    /\ ~aborted
    /\ pc[t] = "decode"
    /\ \E j \in JunkBytes :
         LET d == netdev_windows_netdev_from_ofpbuf(reply_buf[t].data,
                                                    ovs_win_netdev_family, j)
             e == IF error[t] = 0 THEN d.error ELSE error[t]
         IN  /\ error' = [ error EXCEPT ![t] = e ]
             /\ steps' = [ steps EXCEPT
                             ![t] = IF error[t] = 0 THEN Append(@, "decode")
                                    ELSE @ ]
             /\ IF e # 0
                THEN /\ info' = [ info EXCEPT
                                    ![t] = netdev_windows_info_init ]
                     /\ reply_buf' =
                          [ reply_buf EXCEPT ![t] = DeleteReply(buf[t], @) ]
                     /\ buf' = [ buf EXCEPT ![t] = "NULL" ]
                     /\ qfail' = [ qfail EXCEPT
                                     ![t] = IF error[t] = 0 THEN "decode"
                                            ELSE @ ]
                ELSE /\ info' = [ info EXCEPT ![t] = d.info ]
                     /\ qfail' = [ qfail EXCEPT ![t] = "ok" ]
                     /\ UNCHANGED << reply_buf, buf >>
             /\ qret' = [ qret EXCEPT ![t] = query_netdev_result(e) ]
    /\ pc' = [ pc EXCEPT ![t] = "q_ret" ]
    /\ UNCHANGED << shared, call, init_error, request_buf, decoded, device,
                    aborted >>

\* ---------------------------------------- netdev_windows_system_construct

AllValid == BitOr(BitOr(VALID_ETHERADDR, VALID_MTU), VALID_IFFLAG)

\* The fill without the "|= VALID_MTU".
ConstructFill_NoMtuBit(d, i) ==
    [ d EXCEPT !.change_seq = 1,
               !.dev_type = ToInt32(i.ovs_type),
               !.port_no = i.port_no,
               !.mac = i.mac_address,
               !.cache_valid = BitOr(VALID_ETHERADDR, VALID_IFFLAG),
               !.ifindex = -EOPNOTSUPP,
               !.mtu = i.mtu,
               !.ifi_flags = i.ifi_flags ]

\* The device after construct filled it from the query's info.
ConstructFill(d, i) ==
    [ d EXCEPT !.change_seq = 1,
               !.dev_type = ToInt32(i.ovs_type),
               !.port_no = i.port_no,
               !.mac = i.mac_address,
               !.cache_valid = AllValid,
               !.ifindex = -EOPNOTSUPP,
               !.mtu = i.mtu,
               !.ifi_flags = i.ifi_flags ]

\* After query_netdev returned: return its error, or delete the reply and
\* fill the device.  Both construct entry points run this.
netdev_windows_system_construct(t) ==
    /\ ~aborted
    /\ pc[t] = "q_ret"
    /\ cret' = [ cret EXCEPT ![t] = qret[t] ]
    /\ IF qret[t] # 0
       THEN UNCHANGED << dev, reply_buf >>
       ELSE /\ reply_buf' = [ reply_buf EXCEPT ![t] = DeleteReply(buf[t], @) ]
            /\ dev' = [ dev EXCEPT ![t] = ConstructFill(@, info[t]) ]
    /\ pc' = [ pc EXCEPT ![t] = "constructed" ]
    /\ UNCHANGED << decoded, shared, call, init_error, info, request_buf, buf, error, qret,
                    steps, qfail, devname, acc, aborted >>

\* -------------------------------------------------------------- accessors

\* netdev_windows_get_etheraddr: the copy when the bit is set; else the
\* ovs_assert aborts, or, in a build that compiles it out, EINVAL is
\* returned.  The caller's output, out, is << >> while nothing was written
\* to it.
netdev_windows_get_etheraddr(t) ==
    /\ ~aborted
    /\ pc[t] = "constructed"
    /\ IF BitAnd(dev[t].cache_valid, VALID_ETHERADDR) # 0
       THEN /\ acc' = [ acc EXCEPT ![t] = [ fn |-> "get_etheraddr",
                                            ret |-> 0,
                                            out |-> dev[t].mac ] ]
            /\ aborted' = aborted
       ELSE \/ /\ aborted' = TRUE
               /\ acc' = acc
            \/ /\ acc' = [ acc EXCEPT ![t] = [ fn |-> "get_etheraddr",
                                                ret |-> EINVAL,
                                                out |-> << >> ] ]
               /\ aborted' = aborted
    /\ UNCHANGED << shared, locals, devname, dev, cret, pc  >>

\* The accessor without the assertion and the test of the bit.
netdev_windows_get_mtu_Unchecked(t) ==
    /\ ~aborted
    /\ pc[t] = "constructed"
    /\ acc' = [ acc EXCEPT ![t] = [ fn |-> "get_mtu",
                                    ret |-> 0,
                                    out |-> << ToInt32(dev[t].mtu) >> ] ]
    /\ UNCHANGED << shared, locals, devname, dev, cret, pc, aborted >>

\* netdev_windows_get_mtu: the value when the bit is set; else the ovs_assert
\* aborts, or, in a build that compiles it out, EINVAL is returned.
netdev_windows_get_mtu(t) ==
    /\ ~aborted
    /\ pc[t] = "constructed"
    /\ IF BitAnd(dev[t].cache_valid, VALID_MTU) # 0
       THEN /\ acc' = [ acc EXCEPT ![t] = [ fn |-> "get_mtu",
                                            ret |-> 0,
                                            out |-> << ToInt32(dev[t].mtu) >> ] ]
            /\ aborted' = aborted
       ELSE \/ /\ aborted' = TRUE
               /\ acc' = acc
            \/ /\ acc' = [ acc EXCEPT ![t] = [ fn |-> "get_mtu",
                                                ret |-> EINVAL,
                                                out |-> << >> ] ]
               /\ aborted' = aborted
    /\ UNCHANGED << shared, locals, devname, dev, cret, pc  >>

\* A destruct that invalidates the cache.
netdev_windows_destruct_Clears(t) ==
    /\ ~aborted
    /\ pc[t] = "constructed"
    /\ dev' = [ dev EXCEPT ![t].cache_valid = 0 ]
    /\ acc' = [ acc EXCEPT ![t] = NoAccess ]
    /\ pc' = [ pc EXCEPT ![t] = "destructed" ]
    /\ UNCHANGED << shared, locals, devname, cret, aborted >>

\* netdev_windows_destruct does nothing to the device.  The device is read
\* no more: the record of the last accessor call ends here.
netdev_windows_destruct(t) ==
    /\ ~aborted
    /\ pc[t] = "constructed"
    /\ acc' = [ acc EXCEPT ![t] = NoAccess ]
    /\ pc' = [ pc EXCEPT ![t] = "destructed" ]
    /\ UNCHANGED << shared, locals, devname, dev, cret, aborted >>

\* netdev_windows_dealloc frees the device; the thread's frame of the
\* finished construct call is gone with it.
netdev_windows_dealloc(t) ==
    /\ ~aborted
    /\ pc[t] = "destructed"
    /\ pc' = [ pc EXCEPT ![t] = "idle" ]
    /\ devname' = [ devname EXCEPT ![t] = NULLSTR ]
    /\ dev' = [ dev EXCEPT ![t] = netdev_windows_alloc_record ]
    /\ cret' = [ cret EXCEPT ![t] = 0 ]
    /\ acc' = [ acc EXCEPT ![t] = NoAccess ]
    /\ caller' = [ caller EXCEPT ![t] = "none" ]
    /\ late' = [ late EXCEPT ![t] = FALSE ]
    /\ init_error' = [ init_error EXCEPT ![t] = 0 ]
    /\ info' = [ info EXCEPT ![t] = netdev_windows_info_init ]
    /\ request_buf' = [ request_buf EXCEPT ![t] = NoBuffer ]
    /\ reply_buf' = [ reply_buf EXCEPT ![t] = NoBuffer ]
    /\ buf' = [ buf EXCEPT ![t] = "uninit" ]
    /\ error' = [ error EXCEPT ![t] = 0 ]
    /\ qret' = [ qret EXCEPT ![t] = 0 ]
    /\ steps' = [ steps EXCEPT ![t] = << >> ]
    /\ qfail' = [ qfail EXCEPT ![t] = "none" ]
    /\ UNCHANGED << shared, decoded, aborted >>

\* ---------------------------------------------------------- specification

Next ==
    \E t \in Threads :
        \/ netdev_windows_alloc(t)
        \/ class_init_call(t)
        \/ class_init_return(t)
        \/ query_netdev_start(t)
        \/ init_once_wait(t)
        \/ init_once_start(t)
        \/ init_lookup(t)
        \/ init_sock_create(t)
        \/ init_once_done(t)
        \/ query_netdev_encode(t)
        \/ query_netdev_transact(t)
        \/ query_netdev_decode(t)
        \/ netdev_windows_system_construct(t)
        \/ netdev_windows_get_etheraddr(t)
        \/ netdev_windows_get_mtu(t)
        \/ netdev_windows_destruct(t)
        \/ netdev_windows_dealloc(t)

Spec == Init /\ [][Next]_vars

\* Every thread inside netdev_windows_init keeps running: the scheduler is
\* fair to it, the lookup and the socket creation return, and a caller
\* waiting at the guard is woken when the guard is done.
InitStep(t) ==
    \/ init_once_start(t)
    \/ init_lookup(t)
    \/ init_sock_create(t)
    \/ init_once_done(t)

InitFairness == \A t \in Threads : WF_vars(InitStep(t))

\* netdev_windows_init alone: every thread calls it through the class's init
\* slot, over and over.
BindingNext ==
    \E t \in Threads :
        \/ class_init_call(t)
        \/ init_once_wait(t)
        \/ init_once_start(t)
        \/ init_lookup(t)
        \/ init_sock_create(t)
        \/ init_once_done(t)
        \/ class_init_return(t)

BindingSpec == Init /\ [][BindingNext]_vars /\ InitFairness

\* ------------------------------------------------------- the codec alone

\* The encoder and the decoder are functions of their arguments and of the
\* family number.  CodecSpec starts where the family is bound and applies
\* them to infos and buffers of the sets below: the encoder to an info, the
\* decoder to the bytes the encoder produced or to a buffer received.

LongName == <<101, 116, 104, 48, 49, 50, 51, 52, 53, 54, 55, 56, 57, 48, 49>>

CodecNames == {NULLSTR, EmptyName, Eth0, Br, LongName}
CodecCmds == {OVS_WIN_NETDEV_CMD_GET, 2}
CodecDpIfindexes == {0, 7, 9}

CodecInfos ==
    { [ netdev_windows_info_init EXCEPT !.cmd = c, !.dp_ifindex = d,
                                        !.name = n, !.mtu = m ] :
        c \in CodecCmds, d \in CodecDpIfindexes, n \in CodecNames,
        m \in {0, 1500} }

\* Buffers the decoder may be handed: the replies of the transport, and
\* buffers cut short at every header, of another family, with a long name,
\* an unterminated or too long name, a short or long MAC address, lacking
\* each attribute, with an attribute repeated, with bytes behind the
\* attributes.
CodecBuffers(family) ==
    Replies(family)
    \cup { << >>, << Raw(8, 1) >>, << Raw(23, 0) >>,
           SubSeq(Reply(family, 0, Eth0Attrs), 1, 1),
           Reply(family, 0, << >>),
           Reply(0, 0, BrAttrs),
           Reply(family, 5,
                 ReplyAttrs(2, 1, LongName, Mac1, 1500, 4099)),
           Reply(family, 0,
                 ReplyAttrs(2, 1, Append(LongName, 55), Mac1, 1500, 4099)),
           Reply(family, 0,
                 Append(WithoutAttr(Eth0Attrs, "NAME"), NlAttr("NAME", Eth0))),
           Reply(family, 0,
                 ReplyAttrs(2, 1, Eth0, SubSeq(Mac1, 1, 5), 1500, 4099)),
           Reply(family, 0,
                 ReplyAttrs(2, 1, Eth0, Append(Mac1, 102), 1500, 4099)),
           Reply(family, 0,
                 Append(WithoutAttr(Eth0Attrs, "PORT_NO"),
                        NlAttr("PORT_NO", <<2, 0, 0, 0, 0, 0, 0, 0>>))),
           Reply(family, 0,
                 Append(Eth0Attrs, NlAttr("MTU", U32Bytes(9000)))),
           Reply(family, 0, Append(BrAttrs, Raw(3, 1))) }
    \cup { Reply(family, 0, WithoutAttr(BrAttrs, id)) : id \in PolicyIds }

CodecInit ==
    /\ once = "done"
    /\ ovs_win_netdev_family \in FamilyIds
    /\ ovs_win_netdev_sock = "sock"
    /\ nlookup = 1
    /\ nsock = 1
    /\ resolution = << 0 >>
    /\ ThreadsInit

\* netdev_windows_netdev_to_ofpbuf applied to an info and a new buffer.
codec_encode(t) ==
    /\ pc[t] = "idle"
    /\ \E i \in CodecInfos :
         LET r == netdev_windows_netdev_to_ofpbuf(i, << >>,
                                                  ovs_win_netdev_family)
         IN  /\ info' = [ info EXCEPT ![t] = i ]
             /\ request_buf' = [ request_buf EXCEPT ![t] = ofpbuf_new(r.buf) ]
             /\ error' = [ error EXCEPT ![t] = r.error ]
    /\ steps' = [ steps EXCEPT ![t] = << "encode" >> ]
    /\ pc' = [ pc EXCEPT ![t] = "c_encoded" ]
    /\ UNCHANGED << shared, call, init_error, reply_buf, buf, qret, qfail,
                    decoded, device, aborted >>

\* netdev_windows_netdev_from_ofpbuf applied to the bytes the encoder
\* produced.
codec_decode_request(t) ==
    /\ pc[t] = "c_encoded"
    /\ \E j \in JunkBytes :
         decoded' =
           [ decoded EXCEPT
               ![t] = DecodeCall(request_buf[t].data,
                                 netdev_windows_netdev_from_ofpbuf(
                                     request_buf[t].data,
                                     ovs_win_netdev_family, j)) ]
    /\ steps' = [ steps EXCEPT ![t] = Append(@, "decode") ]
    /\ pc' = [ pc EXCEPT ![t] = "c_decoded" ]
    /\ UNCHANGED << shared, call, init_error, info, request_buf, reply_buf,
                    buf, error, qret, qfail, device, aborted >>

\* netdev_windows_netdev_from_ofpbuf applied to a buffer received.
codec_decode_reply(t) ==
    /\ pc[t] = "idle"
    /\ \E b \in CodecBuffers(ovs_win_netdev_family), j \in JunkBytes :
         /\ reply_buf' = [ reply_buf EXCEPT ![t] = ofpbuf_new(b) ]
         /\ decoded' =
              [ decoded EXCEPT
                  ![t] = DecodeCall(b,
                                    netdev_windows_netdev_from_ofpbuf(
                                        b, ovs_win_netdev_family, j)) ]
    /\ steps' = [ steps EXCEPT ![t] = << "decode" >> ]
    /\ pc' = [ pc EXCEPT ![t] = "c_decoded" ]
    /\ UNCHANGED << shared, call, init_error, info, request_buf, buf, error,
                    qret, qfail, device, aborted >>

\* The buffers are deleted; the next application starts afresh.
codec_done(t) ==
    /\ pc[t] = "c_decoded"
    /\ info' = [ info EXCEPT ![t] = netdev_windows_info_init ]
    /\ request_buf' = [ request_buf EXCEPT ![t] = NoBuffer ]
    /\ reply_buf' = [ reply_buf EXCEPT ![t] = NoBuffer ]
    /\ error' = [ error EXCEPT ![t] = 0 ]
    /\ steps' = [ steps EXCEPT ![t] = << >> ]
    /\ decoded' = [ decoded EXCEPT ![t] = NoDecode ]
    /\ pc' = [ pc EXCEPT ![t] = "idle" ]
    /\ UNCHANGED << shared, call, init_error, buf, qret, qfail, device,
                    aborted >>

CodecNext ==
    \E t \in DeviceThreads :
        \/ codec_encode(t)
        \/ codec_decode_request(t)
        \/ codec_decode_reply(t)
        \/ codec_done(t)

CodecSpec == CodecInit /\ [][CodecNext]_vars

\* ----------------------------------------------------------------- claims

Range(f) == { f[x] : x \in DOMAIN f }

Returned(t) == pc[t] \in {"constructed", "destructed"}

QueryFailed(t) == qfail[t] \in {"binding", "encode", "transport", "decode"}

\* The payload of the reply's attribute of type id (the headers come first).
ReplyAttr(data, id) ==
    LET attrs == SubSeq(data, 4, Len(data))
    IN  attrs[LastAttr(attrs, id)].payload

\* C1: when the query that construct makes fails at any stage (binding,
\* encode, transaction, decode), construct returns the underlying nonzero
\* error, and the device has no validity bit set and a change_seq other
\* than 1.
C1_FailedQueryFailsConstruct ==
    \A t \in DeviceThreads :
        (Returned(t) /\ QueryFailed(t)) =>
            /\ cret[t] # 0
            /\ cret[t] = error[t]
            /\ dev[t].cache_valid = 0
            /\ dev[t].change_seq # 1

\* C2: construct raises validity bits only after a transaction that succeeded
\* and whose reply decoded, and the fields it marks valid hold the values the
\* reply carries.
C2_ValidMeansFetched ==
    [][ \A t \in DeviceThreads :
          (dev'[t].cache_valid # 0 /\ dev[t].cache_valid = 0) =>
              /\ qfail[t] = "ok"
              /\ reply_buf[t].st = "live"
              /\ dev'[t].mac = ReplyAttr(reply_buf[t].data, "MAC_ADDR")
              /\ dev'[t].mtu
                   = nl_attr_get_u32([ payload |->
                                         ReplyAttr(reply_buf[t].data, "MTU") ])
              /\ dev'[t].ifi_flags
                   = nl_attr_get_u32([ payload |->
                                         ReplyAttr(reply_buf[t].data,
                                                   "IF_FLAGS") ]) ]_vars

\* C3: query_netdev returns the transaction's error unchanged when the
\* transaction fails, returns a nonzero error when the reply does not
\* decode, and returns 0 only when the transaction succeeded and the reply
\* decoded.
C3_QueryReturnsItsError ==
    \A t \in DeviceThreads :
        pc[t] = "q_ret" =>
            /\ qfail[t] = "transport" => (qret[t] # 0 /\ qret[t] = error[t])
            /\ qfail[t] = "decode" => qret[t] # 0
            /\ qret[t] = 0 => qfail[t] = "ok"

\* C4: once the family binding has been attempted and has failed, a
\* query_netdev call that begins later neither encodes nor transacts, and
\* returns the binding's error.
C4_FailedBindingStopsLaterQueries ==
    \A t \in DeviceThreads :
        ( /\ caller[t] = "query_netdev"
          /\ late[t]
          /\ BindingFailed ) =>
            /\ "encode" \notin Range(steps[t])
            /\ "transact" \notin Range(steps[t])
            /\ pc[t] \in {"q_ret", "constructed", "destructed"} =>
                 (qfail[t] = "binding" /\ qret[t] = resolution[1])

\* C5: every call of netdev_windows_init returns what the one guarded
\* execution ended with: 0 for every caller, or the same error for every
\* caller.
C5_EveryInitReturnsTheResolution ==
    \A t \in Threads :
        pc[t] = "init_ret" =>
            (resolution # << >> /\ init_error[t] = resolution[1])

\* C6: under any interleaving of callers, nl_lookup_genl_family is called
\* once and nl_sock_create at most once and only after a successful lookup;
\* the family number and the socket are written only by the guarded
\* execution and never change once it has ended.
C6_OneGuardedExecution ==
    /\ [] /\ nlookup <= 1
          /\ nsock <= 1
          /\ once = "done" => nlookup = 1
          /\ nsock = 1 => (nlookup = 1 /\ ovs_win_netdev_family \in FamilyIds)
          /\ (\E t \in Threads : pc[t] = "init_ret") => once = "done"
    /\ [][ /\ ( \/ ovs_win_netdev_family' # ovs_win_netdev_family
                \/ ovs_win_netdev_sock' # ovs_win_netdev_sock )
              => (once = "running" /\ once' = "running")
           /\ once = "done" => once' = "done" ]_vars

\* A caller waits at the guard while another has run the lookup and created
\* the socket in the guarded code, which it is about to end.
C6_Witness ==
    /\ once = "running"
    /\ nlookup = 1
    /\ nsock = 1
    /\ ovs_win_netdev_sock = "sock"
    /\ \E t, u \in Threads :
         /\ t # u
         /\ pc[t] = "once_done"
         /\ pc[u] = "init"

\* C7: after a construct that returned 0 the device has exactly the three
\* validity bits, change_seq 1, the negative ifindex -EOPNOTSUPP, the type
\* and port number of the query's info, and the accessors return 0 with the
\* MAC address and the MTU of that info.
C7_SuccessfulConstructFillsDevice ==
    \A t \in DeviceThreads :
        (Returned(t) /\ cret[t] = 0) =>
            /\ dev[t].cache_valid = VALID_ETHERADDR + VALID_MTU + VALID_IFFLAG
            /\ dev[t].change_seq = 1
            /\ dev[t].ifindex = -EOPNOTSUPP
            /\ dev[t].ifindex < 0
            /\ dev[t].dev_type = info[t].ovs_type
            /\ dev[t].port_no = info[t].port_no
            /\ acc[t].ret = 0
            /\ acc[t].fn = "get_etheraddr" => acc[t].out = info[t].mac_address
            /\ acc[t].fn = "get_mtu" => acc[t].out = << info[t].mtu >>

\* A construct returned 0 after a decoded reply whose MTU is 1500, and
\* netdev_windows_get_mtu has returned it.
C7_Witness ==
    \E t \in DeviceThreads :
        /\ pc[t] = "constructed"
        /\ cret[t] = 0
        /\ qfail[t] = "ok"
        /\ info[t].mtu = 1500
        /\ dev[t].cache_valid = AllValid
        /\ acc[t] = [ fn |-> "get_mtu", ret |-> 0, out |-> << 1500 >> ]

\* C8: after a successful decode the info's mac_address is the payload of the
\* reply's MAC-address attribute and its name the string of the name
\* attribute.
C8_MacFromMacAttribute ==
    \A t \in DeviceThreads :
        (pc[t] = "q_ret" /\ qfail[t] = "ok") =>
            /\ info[t].mac_address = ReplyAttr(reply_buf[t].data, "MAC_ADDR")
            /\ info[t].name = CStr(ReplyAttr(reply_buf[t].data, "NAME"))

\* C9: whenever query_netdev returns an error, the request buffer, if one
\* was allocated, has been deleted and every field of the caller's info is
\* zero.
C9_FailedQueryResetsInfo ==
    \A t \in DeviceThreads :
        (pc[t] = "q_ret" /\ qret[t] # 0) =>
            /\ request_buf[t].st \in {"none", "freed"}
            /\ info[t] = netdev_windows_info_init

\* C10, as claimed: encoding an info without a name fails with EINVAL and
\* appends nothing to the request buffer; encoding one with a name succeeds.
C10_EmptyNameAppendsNothing ==
    \A t \in DeviceThreads :
        pc[t] = "encoded" =>
            /\ info[t].name = NULLSTR =>
                 (error[t] = EINVAL /\ request_buf[t].data = << >>)
            /\ info[t].name # NULLSTR => error[t] = 0

\* C10, amended: encoding an info whose name is the null pointer fails with
\* EINVAL, having appended the message, generic and datapath headers and no
\* attribute; encoding one whose name is not null, the zero-length string
\* included, succeeds, the name attribute following the three headers.
C10_NullNameFailsAfterHeaders ==
    \A t \in DeviceThreads :
        pc[t] = "encoded" =>
            LET data == request_buf[t].data
                hdrs == /\ Len(data) >= 3
                        /\ data[1].k = "nlmsghdr"
                        /\ data[2].k = "genlmsghdr"
                        /\ data[3].k = "ovs_header"
            IN  /\ request_buf[t].st = "live"
                /\ info[t].name = NULLSTR =>
                     (error[t] = EINVAL /\ hdrs /\ Len(data) = 3)
                /\ info[t].name # NULLSTR =>
                     /\ error[t] = 0
                     /\ hdrs
                     /\ Len(data) = 4
                     /\ data[4] = NlAttr("NAME", info[t].name \o <<0>>)

\* The encoder has returned EINVAL for an info without a name.
C10_Witness ==
    \E t \in DeviceThreads :
        /\ pc[t] = "encoded"
        /\ info[t].name = NULLSTR
        /\ error[t] = EINVAL
        /\ Len(request_buf[t].data) = 3

\* ------------------------------------------------- claims about the codec

\* The encoder's output has been handed to the decoder.
RoundTrip(t) == pc[t] = "c_decoded" /\ steps[t] = << "encode", "decode" >>

\* The three fixed headers are at the front of data, in the encoder's order.
HeadersThenAttrs(data) ==
    /\ Len(data) >= 3
    /\ data[1].k = "nlmsghdr"
    /\ data[2].k = "genlmsghdr"
    /\ data[3].k = "ovs_header"
    /\ \A i \in 4..Len(data) : data[i].k = "nlattr"

HeadersSize == NLMSG_HDRLEN + GENL_HDRLEN + OVS_HDRLEN

\* C11, as claimed: the decoder applied to the bytes the encoder produced for
\* an info with a name succeeds and yields the same name and command; the
\* bytes are the generic header, the datapath header, the name attribute.
C11_DecodeOfEncodeRestores ==
    \A t \in DeviceThreads :
        (RoundTrip(t) /\ info[t].name # NULLSTR) =>
            /\ decoded[t].error = 0
            /\ decoded[t].info.name = info[t].name
            /\ decoded[t].info.cmd = info[t].cmd
            /\ HeadersThenAttrs(decoded[t].buf)

\* C11, amended: the bytes the encoder produces for an info with a name are
\* the message and generic headers, the datapath header and the name
\* attribute, in this order, carrying the family, the command, the datapath
\* index and the name; the decoder pulls the three headers from them and
\* then rejects them with EINVAL, the other five attributes of its policy
\* being absent, and yields the zeroed info.
C11_EncodedLayoutDecodeRejects ==
    \A t \in DeviceThreads :
        (RoundTrip(t) /\ info[t].name # NULLSTR) =>
            LET data == decoded[t].buf
            IN  /\ error[t] = 0
                /\ Len(data) = 4
                /\ HeadersThenAttrs(data)
                /\ data[1].nlmsg_type = ovs_win_netdev_family
                /\ data[2].cmd = info[t].cmd
                /\ data[3].dp_ifindex = info[t].dp_ifindex
                /\ data[4].type = "NAME"
                /\ data[4].payload = info[t].name \o << 0 >>
                /\ decoded[t].pulled = {"nlmsg", "genl", "ovs_header"}
                /\ decoded[t].error = EINVAL
                /\ decoded[t].info = netdev_windows_info_init

\* The request for "eth0" has been encoded and handed to the decoder.
C11_Witness ==
    \E t \in DeviceThreads :
        /\ RoundTrip(t)
        /\ info[t].name = Eth0
        /\ info[t].cmd = OVS_WIN_NETDEV_CMD_GET
        /\ Len(decoded[t].buf) = 4
        /\ decoded[t].error = EINVAL

\* C12: the decoder applied to a buffer shorter than the three headers
\* together fails and leaves the info zeroed; and applied to any buffer it
\* reads through no header pointer whose pull failed.
C12_ShortBufferFailsUnread ==
    \A t \in DeviceThreads :
        decoded[t].called =>
            /\ decoded[t].deref \subseteq decoded[t].pulled
            /\ ofpbuf_size(decoded[t].buf) < HeadersSize =>
                 /\ decoded[t].error # 0
                 /\ decoded[t].deref = {}
                 /\ decoded[t].info = netdev_windows_info_init

\* The decoder was handed eight bytes: the pull of the message header
\* failed, the two pulls after it did not.
C12_Witness ==
    \E t \in DeviceThreads :
        /\ decoded[t].called
        /\ ofpbuf_size(decoded[t].buf) = 8
        /\ decoded[t].pulled = {"genl", "ovs_header"}
        /\ decoded[t].error = EINVAL

\* C13: the decoder applied to a buffer whose message header's type is not
\* the family number fails, whatever the attributes, and stores nothing in
\* the info.
C13_OtherFamilyFails ==
    \A t \in DeviceThreads :
        ( /\ decoded[t].called
          /\ HeadersThenAttrs(decoded[t].buf)
          /\ decoded[t].buf[1].nlmsg_type # ovs_win_netdev_family ) =>
            /\ decoded[t].error # 0
            /\ decoded[t].info = netdev_windows_info_init

\* The decoder was handed a reply of another family with all six
\* attributes, well formed.
C13_Witness ==
    \E t \in DeviceThreads :
        /\ decoded[t].called
        /\ decoded[t].buf = Reply(ovs_win_netdev_family + 1, 0, Eth0Attrs)
        /\ decoded[t].error = EINVAL

\* What the policy demands of an attribute's payload, as the claim words it.
PolicyLengthOk(a) ==
    CASE a.type = "NAME" -> Len(a.payload) <= IFNAMSIZ
      [] a.type = "MAC_ADDR" -> Len(a.payload) = ETH_ADDR_LEN
      [] OTHER -> Len(a.payload) = 4

\* The attributes of data break the policy: one is unknown to it, one has a
\* length it does not allow, or one of its six is missing.
PolicyViolation(data) ==
    LET attrs == SubSeq(data, 4, Len(data))
    IN  \/ \E i \in 1..Len(attrs) : attrs[i].type \notin PolicyIds
        \/ \E i \in 1..Len(attrs) :
              attrs[i].type \in PolicyIds /\ ~PolicyLengthOk(attrs[i])
        \/ \E id \in PolicyIds :
              \A i \in 1..Len(attrs) : attrs[i].type # id

\* C14: the decoder applied to a buffer with the three headers and the right
\* family fails with EINVAL when an attribute is unknown to the policy, has a
\* length its policy entry does not allow, or one of the six is missing.
C14_PolicyViolationFails ==
    \A t \in DeviceThreads :
        ( /\ decoded[t].called
          /\ HeadersThenAttrs(decoded[t].buf)
          /\ decoded[t].buf[1].nlmsg_type = ovs_win_netdev_family
          /\ PolicyViolation(decoded[t].buf) ) =>
            decoded[t].error = EINVAL

\* The decoder was handed a reply whose MAC-address attribute is five bytes
\* long, all else well formed.
C14_Witness ==
    \E t \in DeviceThreads :
        /\ decoded[t].called
        /\ decoded[t].buf
             = Reply(ovs_win_netdev_family, 0,
                     ReplyAttrs(2, 1, Eth0, SubSeq(Mac1, 1, 5), 1500, 4099))
        /\ decoded[t].error = EINVAL

\* C16: a decode that fails leaves every field of the info zero; one that
\* succeeds stores the command and the datapath index of the headers and the
\* port number, type, name, MTU and interface flags of their own
\* attributes.
C16_DecodeAllOrNothing ==
    \A t \in DeviceThreads :
        decoded[t].called =>
            LET data == decoded[t].buf
                i == decoded[t].info
            IN  /\ decoded[t].error # 0 => i = netdev_windows_info_init
                /\ decoded[t].error = 0 =>
                     /\ HeadersThenAttrs(data)
                     /\ i.cmd = data[2].cmd
                     /\ i.dp_ifindex = data[3].dp_ifindex
                     /\ U32Bytes(i.port_no) = ReplyAttr(data, "PORT_NO")
                     /\ U32Bytes(i.ovs_type) = ReplyAttr(data, "TYPE")
                     /\ i.name \o << 0 >> = ReplyAttr(data, "NAME")
                     /\ U32Bytes(i.mtu) = ReplyAttr(data, "MTU")
                     /\ U32Bytes(i.ifi_flags) = ReplyAttr(data, "IF_FLAGS")

\* The decoder has decoded the reply for "br", of datapath 1 and MTU 9000.
C16_Witness ==
    \E t \in DeviceThreads :
        /\ decoded[t].called
        /\ decoded[t].error = 0
        /\ decoded[t].info.name = Br
        /\ decoded[t].info.dp_ifindex = 1
        /\ decoded[t].info.mtu = 9000

\* --------------------------------- claims about the accessors and buffers

\* C15: an accessor called while its validity bit is unset signals the
\* invalid state, by the failed assertion or by EINVAL, and writes nothing
\* to the caller's output; it returns 0 with the cached value only when the
\* bit is set.
C15_AccessorNeedsItsBit ==
    /\ \A t \in DeviceThreads :
         (pc[t] = "constructed" /\ acc[t].fn # "none") =>
            LET bit == IF acc[t].fn = "get_etheraddr" THEN VALID_ETHERADDR
                       ELSE VALID_MTU
                set == (dev[t].cache_valid \div bit) % 2 = 1
            IN  /\ acc[t].ret \in {0, EINVAL}
                /\ acc[t].ret = 0 <=> set
                /\ ~set => acc[t].out = << >>
                /\ (set /\ acc[t].fn = "get_etheraddr") =>
                      acc[t].out = dev[t].mac
                /\ (set /\ acc[t].fn = "get_mtu") =>
                      acc[t].out = << dev[t].mtu >>
    /\ aborted =>
         \E t \in DeviceThreads :
            /\ pc[t] = "constructed"
            /\ dev[t].cache_valid = 0

\* netdev_windows_get_mtu was called on a device whose construct had failed,
\* and returned EINVAL.
C15_Witness ==
    \E t \in DeviceThreads :
        /\ pc[t] = "constructed"
        /\ cret[t] # 0
        /\ dev[t].cache_valid = 0
        /\ acc[t] = [ fn |-> "get_mtu", ret |-> EINVAL, out |-> << >> ]

\* C17: the steps of a query_netdev call are a prefix of binding, encode,
\* transact, decode: it transacts at most once, not at all when the encoder
\* failed, and decodes only after a transaction that succeeded.
C17_StepsInOrder ==
    \A t \in DeviceThreads :
        caller[t] = "query_netdev" =>
            /\ \E n \in 0..4 :
                  steps[t] = SubSeq(<< "init", "encode", "transact", "decode" >>,
                                    1, n)
            /\ "transact" \in Range(steps[t]) => devname[t] # NULLSTR
            /\ qfail[t] \in {"binding", "encode"} =>
                  "transact" \notin Range(steps[t])
            /\ qfail[t] = "binding" => "encode" \notin Range(steps[t])
            /\ qfail[t] = "transport" => "decode" \notin Range(steps[t])

\* A query_netdev call has gone through all four steps, once each, and
\* returns.
C17_Witness ==
    \E t \in DeviceThreads :
        /\ pc[t] = "q_ret"
        /\ qfail[t] = "ok"
        /\ steps[t] = << "init", "encode", "transact", "decode" >>
        /\ request_buf[t].st = "freed"

\* C18: every request buffer is deleted once before query_netdev returns,
\* every reply once, by query_netdev when the decode fails and by construct
\* otherwise, none twice; and when query_netdev fails or drops the reply the
\* caller's buffer pointer is null.
C18_BuffersOwnedExactly ==
    \A t \in DeviceThreads :
        /\ request_buf[t].st # "double-freed"
        /\ reply_buf[t].st # "double-freed"
        /\ pc[t] \in {"q_ret", "constructed", "destructed"} =>
              request_buf[t].st \in {"none", "freed"}
        /\ (pc[t] = "q_ret" /\ QueryFailed(t)) =>
              reply_buf[t].st \in {"none", "freed"}
        /\ Returned(t) => reply_buf[t].st \in {"none", "freed"}
        /\ (pc[t] = "q_ret" /\ QueryFailed(t)) => buf[t] = "NULL"

\* C19: once construct has returned, the accessors and destruct leave every
\* field of the device as it was, and an accessor called again returns what
\* it returned before.
C19_DeviceFrozenAfterConstruct ==
    [][ \A t \in DeviceThreads :
          (Returned(t) /\ pc'[t] # "idle") =>
              /\ dev'[t] = dev[t]
              /\ (acc[t].fn # "none" /\ acc'[t].fn = acc[t].fn) =>
                    acc'[t] = acc[t] ]_vars

\* A device filled by construct has been destructed, with its fields as
\* construct set them.
C19_Witness ==
    \E t \in DeviceThreads :
        /\ pc[t] = "destructed"
        /\ dev[t].cache_valid = AllValid
        /\ dev[t].mtu = 9000
        /\ dev[t].port_no = 3
        /\ dev[t].change_seq = 1

\* ------------------------------------------------- claims about liveness

\* C20: the guard is held only while a caller is in the guarded code and
\* every path of that code marks it done: a held guard eventually is done,
\* and every caller that entered netdev_windows_init eventually returns from
\* it (unless a failed assertion has ended the process).
C20_GuardAlwaysReleased ==
    /\ [](once = "running" =>
            \E t \in Threads : pc[t] \in {"lookup", "sock", "once_done"})
    /\ (once = "running") ~> (once = "done")
    /\ \A t \in Threads :
          (pc[t] \in {"init", "waiting"}) ~> (pc[t] = "init_ret" \/ aborted)

\* A caller is blocked at the guard while the lookup of the caller that
\* holds it has failed.
C20_Witness ==
    /\ once = "running"
    /\ \E t, u \in Threads :
         /\ t # u
         /\ pc[t] = "once_done"
         /\ init_error[t] \in LookupErrors
         /\ pc[u] = "waiting"

====
